---- MODULE Spec2Model ----
(***************************************************************************)
(* Model of the command-line scripts of prp-system-template:               *)
(*   PRPs/run_prp.py            (read, validate and run a PRP file)         *)
(*   scripts/detect-tech-stack.py (scan a directory, suggest and create     *)
(*                                ai_docs templates)                        *)
(* Each script is a process of its own, so each has its own specification:  *)
(* SpecPrp (run_prp.py main), SpecMain (detect-tech-stack.py main), and     *)
(* SpecScan / SpecSuggest for detect_tech_stack and suggest_ai_docs called  *)
(* as functions.  The variables of the other scripts stay idle.             *)
(* Text is modelled as sequences of one-character strings so that Python's *)
(* `in`, lower() and strip() are computed, not assumed.                     *)
(***************************************************************************)
EXTENDS Integers, Sequences, FiniteSets, TLC

VARIABLES
    \* ---- PRPs/run_prp.py ----
    argv,           \* the parsed command line: [kind, validate_only, ai_tool]
    prpFile,        \* the file named by args.prp_file: [kind, text]
    pc,             \* position of run_prp.py main
    prp_content,    \* main's prp_content
    valid,          \* result of validate_prp_structure ("unset" before the call)
    aiCalls,        \* the calls of run_with_ai so far: <<[content, ai_tool]>>
    out,            \* lines printed so far: <<tag, text>>
    exitCode,       \* process exit status ("running" before the exit)
    \* ---- scripts/detect-tech-stack.py: the working directory ----
    dir,            \* [files, pkg, req, compose]: entries and the contents read
    aiDocsDir,      \* PRPs/ai_docs: "writable", "readonly" or "missing"
    aiDocs,         \* the files of PRPs/ai_docs: name -> content
    \* ---- detect_tech_stack called as a function ----
    scanLog,        \* the outcomes of the calls so far: <<[raised, stack]>>
    \* ---- scripts/detect-tech-stack.py main ----
    dpc,            \* position of main
    tech_stack,     \* main's tech_stack
    suggestions,    \* main's suggestions (the names; see suggested_names)
    answer,         \* the line input() returned
    response,       \* main's response
    created_files,  \* create_ai_docs_files' created_files
    create_calls,   \* the calls of create_ai_docs_files so far: <<suggestions>>
    dRaised,        \* the uncaught exception that ended main ("" if none)
    dExit,          \* process exit status ("running" before the exit)
    \* ---- suggest_ai_docs called as a function ----
    stack_arg,      \* the tech_stack argument
    suggested,      \* the list returned: [done, names]
    \* ---- test-review-build.py: the review functions ----
    entry,          \* the function called first: the pipeline from analyze_code_quality,
                    \* or generate_recommendations / create_review_report on their own
    rpc,            \* the next call: "analyze", "recommend", "report" ("idle" if not under study)
    project,        \* project_dir: [name, files]
    report,         \* project_dir / 'build-review-report.md': [exists, text]
    code_quality,   \* the dict analyze_code_quality returned / the code_quality argument
    recommendations,\* the dict generate_recommendations returned / the recommendations argument
    focus_area,     \* the focus_area argument of the last create_review_report call
    report_calls    \* calls of create_review_report so far

prpVars == <<argv, prpFile, pc, prp_content, valid, aiCalls, out, exitCode>>
dirVars == <<dir, aiDocsDir, aiDocs>>
mainVars ==
    <<dpc, tech_stack, suggestions, answer, response, created_files, create_calls,
      dRaised, dExit>>

sugVars == <<stack_arg, suggested>>

reviewVars ==
    <<entry, rpc, project, report, code_quality, recommendations, focus_area, report_calls>>

vars == <<prpVars, dirVars, scanLog, mainVars, sugVars, reviewVars>>

\* detect-tech-stack.py 13-18: the mapping a scan starts from
EmptyStack == [frontend |-> <<>>, backend |-> <<>>, database |-> <<>>, tools |-> <<>>]

\* package.json when the file does not exist
NoPkg == [kind |-> "absent",
          deps |-> [kind |-> "missing", keys |-> {}],
          dev |-> [kind |-> "missing", keys |-> {}]]

EmptyDir == [files |-> {}, pkg |-> NoPkg, req |-> <<>>, compose |-> <<>>]

\* values of the variables of a script that is not the one under study
PrpIdle ==
    /\ argv = [kind |-> "help", validate_only |-> FALSE, ai_tool |-> "claude"]
    /\ prpFile = [kind |-> "missing", text |-> <<>>]
    /\ pc = "idle"
    /\ prp_content = <<>>
    /\ valid = "unset"
    /\ aiCalls = <<>>
    /\ out = <<>>
    /\ exitCode = "running"

DirIdle == dir = EmptyDir /\ aiDocsDir = "missing" /\ aiDocs = <<>>

ScanIdle == scanLog = <<>>

MainIdle ==
    /\ dpc = "idle"
    /\ tech_stack = EmptyStack
    /\ suggestions = {}
    /\ answer = <<>>
    /\ response = <<>>
    /\ created_files = {}
    /\ create_calls = <<>>
    /\ dRaised = ""
    /\ dExit = "running"

SugIdle == stack_arg = EmptyStack /\ suggested = [done |-> FALSE, names |-> <<>>]

\* test-review-build.py 245-253: the metrics analyze_code_quality starts from
EmptyQuality ==
    [file_count |-> 0, code_files |-> 0, test_files |-> 0, documentation_files |-> 0,
     potential_issues |-> <<>>, best_practices |-> <<>>, improvement_areas |-> <<>>]

\* test-review-build.py 293-299: the dict generate_recommendations starts from
EmptyRecommendations ==
    [high_priority |-> <<>>, medium_priority |-> <<>>, low_priority |-> <<>>,
     tool_integrations |-> <<>>, next_steps |-> <<>>]

NoReport == [exists |-> FALSE, text |-> <<>>]

NoFocus == [kind |-> "None", text |-> <<>>]

ReviewIdle ==
    /\ entry = "none"
    /\ rpc = "idle"
    /\ project = [name |-> <<>>, files |-> {}]
    /\ report = NoReport
    /\ code_quality = EmptyQuality
    /\ recommendations = EmptyRecommendations
    /\ focus_area = NoFocus
    /\ report_calls = 0

----------------------------------------------------------------------------
(* Text helpers *)

Range(s) == {s[i] : i \in 1..Len(s)}

\* Python `needle in hay` for str
IsSubstr(needle, hay) ==
    \E i \in 0..(Len(hay) - Len(needle)) :
        \A j \in 1..Len(needle) : hay[i + j] = needle[j]

RECURSIVE Concat(_)
Concat(ss) == IF ss = <<>> THEN <<>> ELSE Head(ss) \o Concat(Tail(ss))

RECURSIVE SeqsUpTo(_, _)
\* all sequences over S of length 0..n
SeqsUpTo(S, n) ==
    IF n = 0 THEN {<<>>}
    ELSE LET shorter == SeqsUpTo(S, n - 1)
         IN  shorter \cup {Append(s, x) : s \in {t \in shorter : Len(t) = n - 1}, x \in S}

NL == <<"\n">>

----------------------------------------------------------------------------
(* PRPs/run_prp.py *)

SecOverview == <<"#","#"," ","O","v","e","r","v","i","e","w">>
SecRequirements == <<"#","#"," ","R","e","q","u","i","r","e","m","e","n","t","s">>
SecAllNeededContext ==
    <<"#","#"," ","A","l","l"," ","N","e","e","d","e","d"," ","C","o","n","t","e","x","t">>
SecImplementationNotes ==
    <<"#","#"," ","I","m","p","l","e","m","e","n","t","a","t","i","o","n"," ","N","o","t","e","s">>

required_sections ==
    <<SecOverview, SecRequirements, SecAllNeededContext, SecImplementationNotes>>

\* Pieces the PRP file's text is assembled from.  They include a heading
\* inside a longer line ("#" before "## Overview" gives "### Overview"), a
\* heading in another case, and a heading cut in two pieces.
Fragments ==
    { SecOverview \o NL \o SecRequirements \o NL,
      SecAllNeededContext \o NL,
      SecImplementationNotes \o NL,
      SecOverview,
      SecRequirements \o NL,
      <<"#","#"," ","o","v","e","r","v","i","e","w","\n">>,
      <<"#","#"," ","I","m","p","l","e","m","e","n","t","a","t","i","o","n">>,
      <<" ","N","o","t","e","s">>,
      <<"#">> }

MaxFragments == 3

PrpTexts == {Concat(fs) : fs \in SeqsUpTo(Fragments, MaxFragments)}

AiTools == {"claude", "gemini"}

\* argparse outcomes of parser.parse_args(): a usable command line, a command
\* line argparse rejects (exit status 2) and --help (exit status 0).
ArgvOk == [kind : {"ok"}, validate_only : BOOLEAN, ai_tool : AiTools]
ArgvBad == [kind : {"usage_error", "help"}, validate_only : {FALSE}, ai_tool : {"claude"}]

PrpFiles ==
    [kind : {"missing", "unreadable"}, text : {<<>>}]
        \cup [kind : {"text"}, text : PrpTexts]

Msg(tag) == <<tag, <<>>>>

\* a Python bool held in a variable that is "unset" before its assignment
PyBool(b) == IF b THEN "True" ELSE "False"

\* faulty variant: the collecting loop stops at the first missing section
MissingFrom_FirstOnly(sections, content) ==
    LET absent == SelectSeq(sections, LAMBDA x : ~IsSubstr(x, content))
    IN  IF absent = <<>> THEN <<>> ELSE <<Head(absent)>>

RECURSIVE MissingFrom(_, _)
\* run_prp.py 33-36: the loop that collects missing_sections, in order
MissingFrom(sections, content) ==
    IF sections = <<>> THEN <<>>
    ELSE (IF ~IsSubstr(Head(sections), content) THEN <<Head(sections)>> ELSE <<>>)
             \o MissingFrom(Tail(sections), content)

missing_sections(content) == MissingFrom(required_sections, content)

\* what validate_prp_structure prints (38-41)
ValidatePrints(content) ==
    IF missing_sections(content) # <<>>
    THEN <<Msg("Warning: PRP missing required sections:")>>
             \o [i \in 1..Len(missing_sections(content)) |->
                    <<"  - ", missing_sections(content)[i]>>]
    ELSE <<>>

\* the value validate_prp_structure returns (38-43)
validate_prp_structure(content) == missing_sections(content) = <<>>

InitPrp ==
    /\ argv \in ArgvOk \cup ArgvBad
    /\ prpFile \in PrpFiles
    /\ argv.kind # "ok" => prpFile.kind = "missing"
    /\ pc = "parse_args"
    /\ prp_content = <<>>
    /\ valid = "unset"
    /\ aiCalls = <<>>
    /\ out = <<>>
    /\ exitCode = "running"
    /\ DirIdle /\ ScanIdle /\ MainIdle /\ SugIdle /\ ReviewIdle

\* main 60-67: argparse exits 2 on a rejected command line and 0 on --help
ParseArgs ==
    /\ pc = "parse_args"
    /\ IF argv.kind = "ok"
       THEN /\ pc' = "read"
            /\ UNCHANGED <<out, exitCode>>
       ELSE /\ pc' = "exited"
            /\ out' = Append(out, Msg("usage"))
            /\ exitCode' = IF argv.kind = "help" THEN 0 ELSE 2
    /\ UNCHANGED <<argv, prpFile, prp_content, valid, aiCalls>>
    /\ UNCHANGED <<dirVars, scanLog, mainVars, sugVars, reviewVars>>

\* faulty variant: a failed read is tried once more before giving up
ReadPrpFile_Retry ==
    /\ pc = "read"
    /\ IF prpFile.kind = "text"
       THEN /\ prp_content' = prpFile.text
            /\ pc' = "validate"
            /\ UNCHANGED <<out, exitCode>>
       ELSE IF out = <<>>
            THEN /\ out' = Append(out, Msg("Retrying..."))
                 /\ UNCHANGED <<pc, exitCode, prp_content>>
            ELSE /\ out' = Append(out, Msg("Error: PRP file not found."))
                 /\ exitCode' = 1
                 /\ pc' = "exited"
                 /\ UNCHANGED prp_content
    /\ UNCHANGED <<argv, prpFile, valid, aiCalls>>
    /\ UNCHANGED <<dirVars, scanLog, mainVars, sugVars, reviewVars>>

\* main 70 with read_prp_file 11-21
ReadPrpFile ==
    /\ pc = "read"
    /\ IF prpFile.kind = "text"
       THEN /\ prp_content' = prpFile.text
            /\ pc' = "validate"
            /\ UNCHANGED <<out, exitCode>>
       ELSE /\ out' = Append(out, Msg(IF prpFile.kind = "missing"
                                       THEN "Error: PRP file not found."
                                       ELSE "Error reading PRP file"))
            /\ exitCode' = 1
            /\ pc' = "exited"
            /\ UNCHANGED prp_content
    /\ UNCHANGED <<argv, prpFile, valid, aiCalls>>
    /\ UNCHANGED <<dirVars, scanLog, mainVars, sugVars, reviewVars>>

\* faulty variant: a failed validation ends the run even without --validate-only
Validate_AlwaysFatal ==
    /\ pc = "validate"
    /\ valid' = PyBool(validate_prp_structure(prp_content))
    /\ IF validate_prp_structure(prp_content)
       THEN /\ out' = out \o ValidatePrints(prp_content)
            /\ pc' = "after_validate"
            /\ UNCHANGED exitCode
       ELSE /\ out' = out \o ValidatePrints(prp_content)
                       \o <<Msg("PRP validation failed.")>>
            /\ exitCode' = 1
            /\ pc' = "exited"
    /\ UNCHANGED <<argv, prpFile, prp_content, aiCalls>>
    /\ UNCHANGED <<dirVars, scanLog, mainVars, sugVars, reviewVars>>

\* main 73-78 with validate_prp_structure 24-43
Validate ==
    /\ pc = "validate"
    /\ valid' = PyBool(validate_prp_structure(prp_content))
    /\ IF validate_prp_structure(prp_content)
       THEN /\ out' = out \o ValidatePrints(prp_content)
            /\ pc' = "after_validate"
            /\ UNCHANGED exitCode
       ELSE IF argv.validate_only
            THEN /\ out' = out \o ValidatePrints(prp_content)
                            \o <<Msg("PRP validation failed.")>>
                 /\ exitCode' = 1
                 /\ pc' = "exited"
            ELSE /\ out' = out \o ValidatePrints(prp_content)
                            \o <<Msg("Continuing despite validation warnings...")>>
                 /\ pc' = "after_validate"
                 /\ UNCHANGED exitCode
    /\ UNCHANGED <<argv, prpFile, prp_content, aiCalls>>
    /\ UNCHANGED <<dirVars, scanLog, mainVars, sugVars, reviewVars>>

\* main 80-82
ValidateOnlyReturn ==
    /\ pc = "after_validate"
    /\ argv.validate_only
    /\ out' = Append(out, Msg("PRP validation passed."))
    /\ exitCode' = 0
    /\ pc' = "exited"
    /\ UNCHANGED <<argv, prpFile, prp_content, valid, aiCalls>>
    /\ UNCHANGED <<dirVars, scanLog, mainVars, sugVars, reviewVars>>

\* run_with_ai 46-56: the lines it prints
run_with_ai(content, ai_tool) ==
    << Msg("Executing PRP with AI assistance..."),
       <<"content", content>>,
       Msg("AI execution complete. Review the generated code above.") >>

\* faulty variant: the --validate-only return is missing, main falls through
RunWithAi_FallThrough ==
    /\ pc = "after_validate"
    /\ aiCalls' = Append(aiCalls, [content |-> prp_content, ai_tool |-> argv.ai_tool])
    /\ out' = out \o run_with_ai(prp_content, argv.ai_tool)
    /\ exitCode' = 0
    /\ pc' = "exited"
    /\ UNCHANGED <<argv, prpFile, prp_content, valid>>
    /\ UNCHANGED <<dirVars, scanLog, mainVars, sugVars, reviewVars>>

\* main 85, then the normal end of the script
RunWithAi ==
    /\ pc = "after_validate"
    /\ ~argv.validate_only
    /\ aiCalls' = Append(aiCalls, [content |-> prp_content, ai_tool |-> argv.ai_tool])
    /\ out' = out \o run_with_ai(prp_content, argv.ai_tool)
    /\ exitCode' = 0
    /\ pc' = "exited"
    /\ UNCHANGED <<argv, prpFile, prp_content, valid>>
    /\ UNCHANGED <<dirVars, scanLog, mainVars, sugVars, reviewVars>>

NextPrp ==
    \/ ParseArgs
    \/ ReadPrpFile
    \/ Validate
    \/ ValidateOnlyReturn
    \/ RunWithAi

SpecPrp == InitPrp /\ [][NextPrp]_vars

\* one process, one thread, no suspension point: the interpreter runs the
\* next statement of main whenever there is one
SpecPrpFair == InitPrp /\ [][NextPrp]_vars /\ WF_vars(NextPrp)

----------------------------------------------------------------------------
(* Properties of PRPs/run_prp.py *)

Printed(tag) == \E i \in 1..Len(out) : out[i][1] = tag

\* the section names printed as "  - <section>", in print order
ReportedMissing ==
    LET lines == SelectSeq(out, LAMBDA m : m[1] = "  - ")
    IN  [i \in 1..Len(lines) |-> lines[i][2]]

PrpReadable == argv.kind = "ok" /\ prpFile.kind = "text"

\* C5: validate_prp_structure returns True exactly when each of the four
\* required headings occurs as a substring of the content, and the headings
\* it reports as missing are exactly the absent ones, in the required order.
C5_ValidateIffAllHeadings ==
    valid # "unset" =>
        /\ valid = "True" <=> (\A i \in 1..Len(required_sections) :
                                IsSubstr(required_sections[i], prp_content))
        /\ valid = "False" <=> (\E s \in Range(required_sections) :
                                 ~IsSubstr(s, prp_content))
        /\ ReportedMissing =
               SelectSeq(<<SecOverview, SecRequirements, SecAllNeededContext,
                           SecImplementationNotes>>,
                         LAMBDA s : ~IsSubstr(s, prp_content))

C5_Witness ==
    /\ valid = "False"
    /\ IsSubstr(SecOverview, prp_content)
    /\ IsSubstr(SecAllNeededContext, prp_content)
    /\ ReportedMissing = <<SecRequirements, SecImplementationNotes>>

\* C6: with --validate-only on a readable PRP file run_with_ai is never
\* invoked, and the process ends with status 1 exactly when validation
\* returned False and with status 0, after "PRP validation passed", exactly
\* when it returned True.
C6_ValidateOnlyNeverRuns ==
    (PrpReadable /\ argv.validate_only) =>
        /\ aiCalls = <<>>
        /\ ~Printed("Executing PRP with AI assistance...")
        /\ pc = "exited" =>
              /\ valid \in {"True", "False"}
              /\ exitCode = 1 <=> valid = "False"
              /\ exitCode = 0 <=> valid = "True"
              /\ valid = "True" <=> Printed("PRP validation passed.")
              /\ valid = "False" <=> Printed("PRP validation failed.")

C6_Witness ==
    /\ PrpReadable /\ argv.validate_only
    /\ pc = "exited" /\ exitCode = 0 /\ valid = "True"
    /\ Printed("PRP validation passed.")

\* C7: without --validate-only on a readable PRP file run_with_ai is invoked
\* exactly once with the file's content, whether validation passed or failed,
\* after read_prp_file and validate_prp_structure have completed; the process
\* ends with status 0 and a failed validation only adds the "Continuing
\* despite validation warnings" message.
C7_RunsOnceAfterValidation ==
    (PrpReadable /\ ~argv.validate_only) =>
        /\ Len(aiCalls) <= 1
        /\ aiCalls # <<>> =>
              /\ valid \in {"True", "False"}
              /\ prp_content = prpFile.text
              /\ aiCalls[1] = [content |-> prpFile.text, ai_tool |-> argv.ai_tool]
        /\ pc = "exited" =>
              /\ Len(aiCalls) = 1
              /\ exitCode = 0
              /\ Printed("Continuing despite validation warnings...") <=> valid = "False"
              /\ ~Printed("PRP validation failed.")

C7_Witness ==
    /\ PrpReadable /\ ~argv.validate_only
    /\ pc = "exited" /\ valid = "False" /\ Len(aiCalls) = 1
    /\ Printed("Continuing despite validation warnings...")

\* the position of main: each statement lies after the ones before it
PcRank(p) ==
    CASE p = "parse_args" -> 0
      [] p = "read" -> 1
      [] p = "validate" -> 2
      [] p = "after_validate" -> 3
      [] OTHER -> 4

----------------------------------------------------------------------------
(* scripts/detect-tech-stack.py: the scanned directory *)

\* The directory is what the scan reads of it: which entries exist, what
\* package.json holds, and the texts of requirements.txt and
\* docker-compose.yml.  An entry that exists and is read is a readable file.

\* entries of the working directory the scan looks for (files and directories)
FileNames ==
    { "package.json", "main.py", "requirements.txt", "pyproject.toml", "main.go",
      "lib.rs", "Cargo.toml", "supabase", "prisma", "migrations", "schema.sql",
      "docker-compose.yml", "vite.config.js", "vite.config.ts", "webpack.config.js",
      "rollup.config.js", "jest.config.js", "cypress.config.js",
      "playwright.config.js", "README.md" }

\* the part of a name Path('.').glob('*<suffix>') matches
Suffix(name) ==
    CASE name = "main.py" -> ".py"
      [] name = "main.go" -> ".go"
      [] name = "lib.rs" -> ".rs"
      [] name = "schema.sql" -> ".sql"
      [] OTHER -> ""

\* keys a package.json may list under dependencies / devDependencies
DepKeys ==
    { "react", "vue", "angular", "next", "nuxt", "tailwindcss", "@mui/material",
      "@chakra-ui/react", "antd", "redux", "zustand", "@tanstack/react-query",
      "express", "fastify", "koa", "nest", "typescript", "jest", "lodash" }

KwDjango == <<"d","j","a","n","g","o">>
KwFlask == <<"f","l","a","s","k">>
KwFastapi == <<"f","a","s","t","a","p","i">>
KwCelery == <<"c","e","l","e","r","y">>
KwPostgres == <<"p","o","s","t","g","r","e","s">>
KwMysql == <<"m","y","s","q","l">>
KwMongodb == <<"m","o","n","g","o","d","b">>
KwRedis == <<"r","e","d","i","s">>

\* texts of requirements.txt (<<>> is the empty file)
ReqTexts ==
    { <<"D","j","a","n","g","o","=","=","4",".","2","\n">>,
      <<"F","l","a","s","k","\n","c","e","l","e","r","y","\n">>,
      <<"f","a","s","t","a","p","i">>,
      <<"n","u","m","p","y","\n">>,
      <<"d","j","a","n","g","o","r","e","s","t","f","r","a","m","e","w","o","r","k">>,
      <<"f","a","s","t"," ","a","p","i">> }

\* texts of docker-compose.yml
ComposeTexts ==
    { <<"i","m","a","g","e",":"," ","p","o","s","t","g","r","e","s",":","1","5">>,
      <<"i","m","a","g","e",":"," ","M","y","S","Q","L">>,
      <<"M","O","N","G","O","D","B","_","U","R","I">>,
      <<"r","e","d","i","s","\n","p","o","s","t","g","r","e","s","q","l">>,
      <<"m","o","n","g","o"," ","d","b">>,
      <<"n","g","i","n","x">> }

UpperLetters ==
    <<"A","B","C","D","E","F","G","H","I","J","K","L","M","N","O","P","Q","R","S","T","U","V","W","X","Y","Z">>
LowerLetters ==
    <<"a","b","c","d","e","f","g","h","i","j","k","l","m","n","o","p","q","r","s","t","u","v","w","x","y","z">>

\* Python str.lower()
Lower(text) ==
    [i \in 1..Len(text) |->
        IF \E k \in 1..Len(UpperLetters) : UpperLetters[k] = text[i]
        THEN LowerLetters[CHOOSE k \in 1..Len(UpperLetters) : UpperLetters[k] = text[i]]
        ELSE text[i]]

RECURSIVE SubsetsUpTo(_, _)
\* the subsets of S with at most n elements
SubsetsUpTo(S, n) ==
    IF n <= 0 THEN {{}}
    ELSE LET smaller == SubsetsUpTo(S, n - 1)
         IN  smaller \cup {T \cup {x} : T \in smaller, x \in S}

\* bound: directory entries plus dependency keys plus non-empty texts
MaxItems == 3

\* a 'dependencies' / 'devDependencies' field: missing, a JSON object with
\* some keys, or a JSON value that is not an object (null, a list, a string)
DepFields(budget) ==
    [kind : {"missing", "non_object"}, keys : {{}}]
        \cup [kind : {"object"}, keys : SubsetsUpTo(DepKeys, budget)]

\* contents of package.json: text that is not JSON, a JSON value that is not
\* an object, or a JSON object
PkgContents(budget) ==
    [kind : {"invalid_json", "non_object"},
     deps : {[kind |-> "missing", keys |-> {}]},
     dev : {[kind |-> "missing", keys |-> {}]}]
        \cup {p \in [kind : {"object"}, deps : DepFields(budget), dev : DepFields(budget)] :
                Cardinality(p.deps.keys) + Cardinality(p.dev.keys) <= budget}

TextCost(t) == IF t = <<>> THEN 0 ELSE 1

Items(d) ==
    Cardinality(d.files) + Cardinality(d.pkg.deps.keys) + Cardinality(d.pkg.dev.keys)
        + TextCost(d.req) + TextCost(d.compose)

\* the texts a file holds: the empty text, or one of `texts` if the file exists
TextsOf(f, name, texts) == {<<>>} \cup (IF name \in f THEN texts ELSE {})

\* the directories with at most `budget` items
Dirs(budget) ==
    { d \in UNION { [files : {f},
                    pkg : IF "package.json" \in f
                          THEN PkgContents(budget - Cardinality(f))
                          ELSE {NoPkg},
                    req : TextsOf(f, "requirements.txt", ReqTexts),
                    compose : TextsOf(f, "docker-compose.yml", ComposeTexts)] :
                  f \in SubsetsUpTo(FileNames, budget) } :
        Items(d) <= budget }

\* os.path.exists(name)
Exists(d, name) == name \in d.files

\* any(Path('.').glob('*' + suffix))
AnyGlob(d, suffix) == \E f \in d.files : Suffix(f) = suffix

\* package_data.get(field, {}) of a JSON object
GetOrEmpty(field) == IF field.kind = "missing" THEN [kind |-> "object", keys |-> {}] ELSE field

\* the exception that leaves detect_tech_stack ("" when it returns):
\* json.load (23), package_data.get (24) and {**dependencies, ...} (26)
detect_raises(d) ==
    IF ~Exists(d, "package.json") THEN ""
    ELSE IF d.pkg.kind = "invalid_json" THEN "JSONDecodeError"
    ELSE IF d.pkg.kind = "non_object" THEN "AttributeError"
    ELSE IF GetOrEmpty(d.pkg.deps).kind # "object" \/ GetOrEmpty(d.pkg.dev).kind # "object"
         THEN "TypeError"
    ELSE ""

\* all_deps = {**dependencies, **dev_dependencies} (its keys)
all_deps(d) == GetOrEmpty(d.pkg.deps).keys \cup GetOrEmpty(d.pkg.dev).keys

\* `if cond: tech_stack[...].append(label)`
AppendIf(cond, label) == IF cond THEN <<label>> ELSE <<>>

Contains(seq, x) == \E i \in 1..Len(seq) : seq[i] = x

\* 28-56
FrontendLabels(d) ==
    IF ~Exists(d, "package.json") THEN <<>>
    ELSE   AppendIf("react" \in all_deps(d), "React")
        \o AppendIf("vue" \in all_deps(d), "Vue")
        \o AppendIf("angular" \in all_deps(d), "Angular")
        \o AppendIf("next" \in all_deps(d), "Next.js")
        \o AppendIf("nuxt" \in all_deps(d), "Nuxt.js")
        \o AppendIf("tailwindcss" \in all_deps(d), "Tailwind CSS")
        \o AppendIf("@mui/material" \in all_deps(d), "Material-UI")
        \o AppendIf("@chakra-ui/react" \in all_deps(d), "Chakra UI")
        \o AppendIf("antd" \in all_deps(d), "Ant Design")
        \o AppendIf("redux" \in all_deps(d), "Redux")
        \o AppendIf("zustand" \in all_deps(d), "Zustand")
        \o AppendIf("@tanstack/react-query" \in all_deps(d), "TanStack Query")

\* 58-66
PackageBackendLabels(d) ==
    IF ~Exists(d, "package.json") THEN <<>>
    ELSE   AppendIf("express" \in all_deps(d), "Express")
        \o AppendIf("fastify" \in all_deps(d), "Fastify")
        \o AppendIf("koa" \in all_deps(d), "Koa")
        \o AppendIf("nest" \in all_deps(d), "NestJS")

\* faulty variant: the keywords are looked up in the text as written, not lower-cased
RequirementsLabels_CaseSensitive(d) ==
    IF ~Exists(d, "requirements.txt") THEN <<>>
    ELSE   AppendIf(IsSubstr(KwDjango, d.req), "Django")
        \o AppendIf(IsSubstr(KwFlask, d.req), "Flask")
        \o AppendIf(IsSubstr(KwFastapi, d.req), "FastAPI")
        \o AppendIf(IsSubstr(KwCelery, d.req), "Celery")

\* 76-86
RequirementsLabels(d) ==
    IF ~Exists(d, "requirements.txt") THEN <<>>
    ELSE   AppendIf(IsSubstr(KwDjango, Lower(d.req)), "Django")
        \o AppendIf(IsSubstr(KwFlask, Lower(d.req)), "Flask")
        \o AppendIf(IsSubstr(KwFastapi, Lower(d.req)), "FastAPI")
        \o AppendIf(IsSubstr(KwCelery, Lower(d.req)), "Celery")

\* 58-98, in the order of the appends
BackendLabels(d) ==
       PackageBackendLabels(d)
    \o AppendIf(AnyGlob(d, ".py"), "Python")
    \o RequirementsLabels(d)
    \o AppendIf(Exists(d, "pyproject.toml"), "Python")
    \o AppendIf(AnyGlob(d, ".go"), "Go")
    \o AppendIf(AnyGlob(d, ".rs") \/ Exists(d, "Cargo.toml"), "Rust")

\* 110-121
ComposeLabels(d) ==
    IF ~Exists(d, "docker-compose.yml") THEN <<>>
    ELSE   AppendIf(IsSubstr(KwPostgres, Lower(d.compose)), "PostgreSQL")
        \o AppendIf(IsSubstr(KwMysql, Lower(d.compose)), "MySQL")
        \o AppendIf(IsSubstr(KwMongodb, Lower(d.compose)), "MongoDB")
        \o AppendIf(IsSubstr(KwRedis, Lower(d.compose)), "Redis")

\* 100-121
DatabaseLabels(d) ==
       AppendIf(Exists(d, "supabase"), "Supabase")
    \o AppendIf(Exists(d, "prisma"), "Prisma")
    \o AppendIf(Exists(d, "migrations"), "Database Migrations")
    \o AppendIf(AnyGlob(d, ".sql"), "SQL")
    \o ComposeLabels(d)

\* 68-70 and 123-129: the tools list when line 132 reads it
ToolsBeforeJest(d) ==
       AppendIf(Exists(d, "package.json") /\ "typescript" \in all_deps(d), "TypeScript")
    \o AppendIf(Exists(d, "vite.config.js") \/ Exists(d, "vite.config.ts"), "Vite")
    \o AppendIf(Exists(d, "webpack.config.js"), "Webpack")
    \o AppendIf(Exists(d, "rollup.config.js"), "Rollup")

\* 68-70 and 123-137
ToolsLabels(d) ==
       ToolsBeforeJest(d)
    \o AppendIf(Exists(d, "jest.config.js") \/ Contains(ToolsBeforeJest(d), "jest"), "Jest")
    \o AppendIf(Exists(d, "cypress.config.js"), "Cypress")
    \o AppendIf(Exists(d, "playwright.config.js"), "Playwright")

\* the mapping detect_tech_stack returns when it returns (139)
detect_tech_stack(d) ==
    [frontend |-> FrontendLabels(d),
     backend |-> BackendLabels(d),
     database |-> DatabaseLabels(d),
     tools |-> ToolsLabels(d)]

\* one call of detect_tech_stack(): what it raised, or the mapping returned
ScanOutcome(d) ==
    [raised |-> detect_raises(d),
     stack |-> IF detect_raises(d) = "" THEN detect_tech_stack(d) ELSE EmptyStack]

\* bound: calls of detect_tech_stack on one directory
MaxScans == 2

InitScan ==
    /\ dir \in Dirs(MaxItems)
    /\ aiDocsDir = "writable"
    /\ aiDocs = <<>>
    /\ scanLog = <<>>
    /\ PrpIdle /\ MainIdle /\ SugIdle /\ ReviewIdle

\* faulty variant: the scan leaves a cache file behind and answers from it afterwards
Scan_Caching ==
    /\ Len(scanLog) < MaxScans
    /\ scanLog' = Append(scanLog, IF Exists(dir, ".tech-stack-cache")
                                  THEN [raised |-> "", stack |-> EmptyStack]
                                  ELSE ScanOutcome(dir))
    /\ dir' = [dir EXCEPT !.files = @ \cup {".tech-stack-cache"}]
    /\ UNCHANGED <<aiDocsDir, aiDocs, prpVars, mainVars, sugVars, reviewVars>>

\* detect_tech_stack 11-139: it reads the directory and writes nothing
Scan ==
    /\ Len(scanLog) < MaxScans
    /\ scanLog' = Append(scanLog, ScanOutcome(dir))
    /\ UNCHANGED <<dirVars, prpVars, mainVars, sugVars, reviewVars>>

NextScan == Scan

SpecScan == InitScan /\ [][NextScan]_vars

----------------------------------------------------------------------------
(* scripts/detect-tech-stack.py: suggest_ai_docs *)

\* 147-178
FrontendDocs(label) ==
    CASE label = "React" ->
             <<"react-typescript-conventions.md", "react-hooks-patterns.md",
               "react-component-patterns.md">>
      [] label = "Vue" -> <<"vue-composition-patterns.md", "vue-options-patterns.md">>
      [] label = "Angular" -> <<"angular-patterns.md", "angular-services-patterns.md">>
      [] label = "Next.js" -> <<"nextjs-patterns.md", "nextjs-routing-patterns.md">>
      [] label = "Tailwind CSS" -> <<"tailwind-patterns.md">>
      [] label = "Material-UI" -> <<"mui-patterns.md">>
      [] label = "Redux" -> <<"redux-patterns.md">>
      [] label = "Zustand" -> <<"zustand-patterns.md">>
      [] label = "TanStack Query" -> <<"react-query-patterns.md">>
      [] OTHER -> <<>>

\* 181-218
BackendDocs(label) ==
    CASE label = "Express" ->
             <<"express-patterns.md", "nodejs-patterns.md", "express-middleware-patterns.md">>
      [] label = "NestJS" -> <<"nestjs-patterns.md", "nestjs-module-patterns.md">>
      [] label = "Django" ->
             <<"django-patterns.md", "django-models-patterns.md", "django-views-patterns.md">>
      [] label = "Flask" -> <<"flask-patterns.md", "flask-blueprint-patterns.md">>
      [] label = "FastAPI" -> <<"fastapi-patterns.md", "fastapi-dependency-patterns.md">>
      [] label = "Go" -> <<"go-patterns.md", "go-http-patterns.md">>
      [] label = "Rust" -> <<"rust-patterns.md", "rust-web-patterns.md">>
      [] OTHER -> <<>>

\* 221-238
DatabaseDocs(label) ==
    CASE label = "Supabase" ->
             <<"supabase-patterns.md", "supabase-auth-patterns.md",
               "supabase-realtime-patterns.md">>
      [] label = "Prisma" -> <<"prisma-patterns.md", "prisma-migration-patterns.md">>
      [] label = "PostgreSQL" -> <<"postgresql-patterns.md">>
      [] label = "MongoDB" -> <<"mongodb-patterns.md">>
      [] label = "Redis" -> <<"redis-patterns.md">>
      [] OTHER -> <<>>

\* 241-249
ToolDocs(label) ==
    CASE label = "TypeScript" -> <<"typescript-patterns.md">>
      [] label = "Vite" -> <<"vite-patterns.md">>
      [] label = "Jest" -> <<"jest-testing-patterns.md">>
      [] label = "Cypress" -> <<"cypress-testing-patterns.md">>
      [] OTHER -> <<>>

\* the names one label of one category adds to `suggestions`
DocsFor(category, label) ==
    CASE category = "frontend" -> FrontendDocs(label)
      [] category = "backend" -> BackendDocs(label)
      [] category = "database" -> DatabaseDocs(label)
      [] category = "tools" -> ToolDocs(label)

RECURSIVE ExtendFor(_, _)
\* one `for label in tech_stack[category]` loop: the names it appends, in order
ExtendFor(category, labels) ==
    IF labels = <<>> THEN <<>>
    ELSE DocsFor(category, Head(labels)) \o ExtendFor(category, Tail(labels))

\* 144-249: the list `suggestions` before duplicates are removed
suggestions_list(ts) ==
       ExtendFor("frontend", ts.frontend)
    \o ExtendFor("backend", ts.backend)
    \o ExtendFor("database", ts.database)
    \o ExtendFor("tools", ts.tools)

\* 252: set(suggestions)
suggested_names(ts) == Range(suggestions_list(ts))

RECURSIVE Orderings(_)
\* the lists that hold each element of S once
Orderings(S) ==
    IF S = {} THEN {<<>>}
    ELSE UNION {{<<x>> \o rest : rest \in Orderings(S \ {x})} : x \in S}

\* faulty variant: duplicates are not removed
suggest_ai_docs_KeepDuplicates(ts) == {suggestions_list(ts)}

\* 142-252: the lists suggest_ai_docs may return.  list(set(...)) fixes the
\* elements, not their order, so every ordering is a possible result.
suggest_ai_docs(ts) == Orderings(suggested_names(ts))

Categories == {"frontend", "backend", "database", "tools"}

\* the labels detect_tech_stack can put in each category, and two labels in
\* a category that has no entry for them
LabelPairs ==
    ({"frontend"} \X
        {"React", "Vue", "Angular", "Next.js", "Nuxt.js", "Tailwind CSS", "Material-UI",
         "Chakra UI", "Ant Design", "Redux", "Zustand", "TanStack Query"})
    \cup ({"backend"} \X
        {"Express", "Fastify", "Koa", "NestJS", "Python", "Django", "Flask", "FastAPI",
         "Celery", "Go", "Rust", "React"})
    \cup ({"database"} \X
        {"Supabase", "Prisma", "Database Migrations", "SQL", "PostgreSQL", "MySQL",
         "MongoDB", "Redis"})
    \cup ({"tools"} \X
        {"TypeScript", "Vite", "Webpack", "Rollup", "Jest", "Cypress", "Playwright", "Redis"})

\* the labels of one category among the pairs, in their order
LabelsOf(pairs, category) ==
    LET mine == SelectSeq(pairs, LAMBDA p : p[1] = category)
    IN  [i \in 1..Len(mine) |-> mine[i][2]]

StackOf(pairs) ==
    [frontend |-> LabelsOf(pairs, "frontend"),
     backend |-> LabelsOf(pairs, "backend"),
     database |-> LabelsOf(pairs, "database"),
     tools |-> LabelsOf(pairs, "tools")]

\* bounds: labels in the argument (repeats counted), names in the result
MaxLabels == 2
MaxNames == 4

StackArgs ==
    { ts \in {StackOf(pairs) : pairs \in SeqsUpTo(LabelPairs, MaxLabels)} :
        Cardinality(suggested_names(ts)) <= MaxNames }

InitSuggest ==
    /\ stack_arg \in StackArgs
    /\ suggested = [done |-> FALSE, names |-> <<>>]
    /\ PrpIdle /\ DirIdle /\ ScanIdle /\ MainIdle /\ ReviewIdle

\* one call suggest_ai_docs(stack_arg)
Suggest ==
    /\ ~suggested.done
    /\ \E names \in suggest_ai_docs(stack_arg) :
           suggested' = [done |-> TRUE, names |-> names]
    /\ UNCHANGED <<stack_arg, prpVars, dirVars, scanLog, mainVars, reviewVars>>

NextSuggest == Suggest

SpecSuggest == InitSuggest /\ [][NextSuggest]_vars

----------------------------------------------------------------------------
(* scripts/detect-tech-stack.py: main and create_ai_docs_files *)

\* the whitespace str.strip() removes
IsSpace(c) == c \in {" ", "\t", "\n", "\r"}

RECURSIVE LStrip(_)
LStrip(text) ==
    IF text # <<>> /\ IsSpace(Head(text)) THEN LStrip(Tail(text)) ELSE text

RECURSIVE RStrip(_)
RStrip(text) ==
    IF text # <<>> /\ IsSpace(text[Len(text)])
    THEN RStrip(SubSeq(text, 1, Len(text) - 1))
    ELSE text

\* Python str.strip()
Strip(text) == RStrip(LStrip(text))

\* lines the user may type at the prompt
RawAnswers ==
    { <<>>, <<"y">>, <<"Y">>, <<"y","e","s">>, <<"Y","E","S">>,
      <<" ","Y","e","s","\t">>, <<"n">>, <<"n","o">>, <<"y","e","a","h">>,
      <<"y"," ","e","s">>, <<"y","e">>, <<" ">> }

\* faulty variant: any answer that starts with y counts as consent
Accepts_LeadingY(resp) == resp # <<>> /\ resp[1] = "y"

\* 332: response in ['y', 'yes']
Accepts(resp) == resp \in {<<"y">>, <<"y","e","s">>}

\* files that may already be in PRPs/ai_docs
PreDocs == {"go-patterns.md", "react-hooks-patterns.md"}

UserFile(name) == [kind |-> "user", name |-> name]

\* 273-310: the template text written for `filename`
create_basic_template(filename) == [kind |-> "template", name |-> filename]

\* 255-270.  Every missing suggestion is opened for writing in the same
\* directory, so the first open fails, and nothing is written, exactly when
\* a suggestion is missing and the directory cannot be written to; otherwise
\* each missing suggestion is written.  The order of the loop does not change
\* the files left behind, so the suggestions are kept as a set.
create_ai_docs_files(sugs, docsDir, docs) ==
    LET todo == {n \in sugs : n \notin DOMAIN docs}
    IN  IF todo # {} /\ docsDir # "writable"
        THEN [raised |-> IF docsDir = "missing" THEN "FileNotFoundError"
                         ELSE "PermissionError",
              docs |-> docs,
              created |-> {}]
        ELSE [raised |-> "",
              docs |-> [n \in DOMAIN docs \cup todo |->
                           IF n \in todo THEN create_basic_template(n) ELSE docs[n]],
              created |-> todo]

\* bound: items of the directory main runs in
MaxMainItems == 2

InitMain ==
    /\ dir \in Dirs(MaxMainItems)
    /\ aiDocsDir \in {"writable", "readonly", "missing"}
    /\ \E pre \in SUBSET PreDocs :
           /\ aiDocsDir = "missing" => pre = {}
           /\ aiDocs = [n \in pre |-> UserFile(n)]
    /\ dpc = "start"
    /\ tech_stack = EmptyStack
    /\ suggestions = {}
    /\ answer = <<>>
    /\ response = <<>>
    /\ created_files = {}
    /\ create_calls = <<>>
    /\ dRaised = ""
    /\ dExit = "running"
    /\ PrpIdle /\ ScanIdle /\ SugIdle /\ ReviewIdle

\* main 315: an exception detect_tech_stack raises is not caught, the
\* interpreter prints the traceback and exits with status 1
DetectStep ==
    /\ dpc = "start"
    /\ IF detect_raises(dir) # ""
       THEN /\ dRaised' = detect_raises(dir)
            /\ dExit' = 1
            /\ dpc' = "exited"
            /\ UNCHANGED tech_stack
       ELSE /\ tech_stack' = detect_tech_stack(dir)
            /\ dpc' = "scanned"
            /\ UNCHANGED <<dRaised, dExit>>
    /\ UNCHANGED <<suggestions, answer, response, created_files, create_calls>>
    /\ UNCHANGED <<dirVars, prpVars, scanLog, sugVars, reviewVars>>

\* main 317-326
SuggestStep ==
    /\ dpc = "scanned"
    /\ suggestions' = suggested_names(tech_stack)
    /\ dpc' = "suggested"
    /\ UNCHANGED <<tech_stack, answer, response, created_files, create_calls, dRaised, dExit>>
    /\ UNCHANGED <<dirVars, prpVars, scanLog, sugVars, reviewVars>>

\* main 328-330: input() returns a line, or raises EOFError at end of input
ReadAnswer ==
    /\ dpc = "suggested"
    /\ suggestions # {}
    /\ \/ \E line \in RawAnswers :
             /\ answer' = line
             /\ response' = Strip(Lower(line))
             /\ dpc' = "answered"
             /\ UNCHANGED <<dRaised, dExit>>
       \/ /\ dRaised' = "EOFError"
          /\ dExit' = 1
          /\ dpc' = "exited"
          /\ UNCHANGED <<answer, response>>
    /\ UNCHANGED <<tech_stack, suggestions, created_files, create_calls>>
    /\ UNCHANGED <<dirVars, prpVars, scanLog, sugVars, reviewVars>>

\* main 332-341 with create_ai_docs_files
CreateDocs ==
    /\ dpc = "answered"
    /\ Accepts(response)
    /\ LET r == create_ai_docs_files(suggestions, aiDocsDir, aiDocs)
       IN  /\ create_calls' = Append(create_calls, suggestions)
           /\ aiDocs' = r.docs
           /\ created_files' = r.created
           /\ dRaised' = r.raised
           /\ dExit' = IF r.raised = "" THEN 0 ELSE 1
    /\ dpc' = "exited"
    /\ UNCHANGED <<tech_stack, suggestions, answer, response>>
    /\ UNCHANGED <<dir, aiDocsDir, prpVars, scanLog, sugVars, reviewVars>>

\* main 342-345
Decline ==
    /\ dpc = "answered"
    /\ ~Accepts(response)
    /\ dExit' = 0
    /\ dpc' = "exited"
    /\ UNCHANGED <<tech_stack, suggestions, answer, response, created_files, create_calls, dRaised>>
    /\ UNCHANGED <<dirVars, prpVars, scanLog, sugVars, reviewVars>>

\* main 346-349
NoSuggestions ==
    /\ dpc = "suggested"
    /\ suggestions = {}
    /\ dExit' = 0
    /\ dpc' = "exited"
    /\ UNCHANGED <<tech_stack, suggestions, answer, response, created_files, create_calls, dRaised>>
    /\ UNCHANGED <<dirVars, prpVars, scanLog, sugVars, reviewVars>>

NextMain ==
    \/ DetectStep
    \/ SuggestStep
    \/ ReadAnswer
    \/ CreateDocs
    \/ Decline
    \/ NoSuggestions

SpecMain == InitMain /\ [][NextMain]_vars

----------------------------------------------------------------------------
(* test-review-build.py: analyze_code_quality, generate_recommendations,
   create_review_report *)

\* relative paths of the entries a project directory may hold
ProjectPaths ==
    { "package.json", "tsconfig.json", "src/TestComponent.tsx", "src/index.js",
      "tests/app.test.js", "README.md", ".gitignore", ".env" }

\* file_path.name.startswith('.')
IsDotFile(path) == path \in {".gitignore", ".env"}

\* file_path.suffix
PathSuffix(path) ==
    CASE path \in {"package.json", "tsconfig.json"} -> ".json"
      [] path = "src/TestComponent.tsx" -> ".tsx"
      [] path \in {"src/index.js", "tests/app.test.js"} -> ".js"
      [] path = "README.md" -> ".md"
      [] OTHER -> ""

CodeSuffixes == {".js", ".ts", ".jsx", ".tsx"}

\* bound: entries of a project directory (the report not counted)
MaxProjectFiles == 2

\* project_dir.name
NameMyApp ==
    <<"m","y","-","a","p","p">>

\* Path('.').name is the empty string
ProjectNames == {NameMyApp, <<>>}

ProjectDirs(n) == [name : ProjectNames, files : SubsetsUpTo(ProjectPaths, n)]

\* a build-review-report.md left by something else
StaleText ==
    <<"s","t","a","l","e"," ","n","o","t","e","s","\n">>

PreReports == {NoReport, [exists |-> TRUE, text |-> StaleText]}

\* faulty variant: files whose path names a test are counted as test files
analyze_code_quality_CountsTests(p, rep) ==
    LET visible == {f \in p.files : ~IsDotFile(f)}
        tests == Cardinality(visible \cap {"tests/app.test.js"})
    IN  [file_count |-> Cardinality(visible) + (IF rep.exists THEN 1 ELSE 0),
         code_files |-> Cardinality({f \in visible : PathSuffix(f) \in CodeSuffixes}),
         test_files |-> tests,
         documentation_files |->
             Cardinality({f \in visible : PathSuffix(f) = ".md"}) + (IF rep.exists THEN 1 ELSE 0),
         potential_issues |-> IF tests = 0 THEN <<"No test files found">> ELSE <<>>,
         best_practices |-> IF ".gitignore" \in p.files THEN <<"Git ignore configured">> ELSE <<>>,
         improvement_areas |-> <<>>]

\* analyze_code_quality 243-270; the report of an earlier run is a file of the
\* directory like any other; 'test_files' is never incremented
analyze_code_quality(p, rep) ==
    LET visible == {f \in p.files : ~IsDotFile(f)}
        test_files == EmptyQuality.test_files
    IN  [file_count |-> Cardinality(visible) + (IF rep.exists THEN 1 ELSE 0),
         code_files |-> Cardinality({f \in visible : PathSuffix(f) \in CodeSuffixes}),
         test_files |-> test_files,
         documentation_files |->
             Cardinality({f \in visible : PathSuffix(f) = ".md"}) + (IF rep.exists THEN 1 ELSE 0),
         potential_issues |-> IF test_files = 0 THEN <<"No test files found">> ELSE <<>>,
         best_practices |-> IF ".gitignore" \in p.files THEN <<"Git ignore configured">> ELSE <<>>,
         improvement_areas |-> <<>>]

TitleAddTesting ==
    <<"A","d","d"," ","T","e","s","t","i","n","g"," ","F","r","a","m","e","w","o","r","k">>
DescAddTesting ==
    <<"N","o"," ","t","e","s","t"," ","f","i","l","e","s"," ","f","o","u","n","d","."," ","I",
      "m","p","l","e","m","e","n","t"," ","c","o","m","p","r","e","h","e","n","s","i","v","e",
      " ","t","e","s","t","i","n","g",".">>
ToolJest ==
    <<"J","e","s","t">>
ToolCypress ==
    <<"C","y","p","r","e","s","s">>
ToolPlaywright ==
    <<"P","l","a","y","w","r","i","g","h","t">>
TextMedium ==
    <<"M","e","d","i","u","m">>
TextHigh ==
    <<"H","i","g","h">>
TextLow ==
    <<"L","o","w">>

\* 302-308
AddTestingFramework ==
    [title |-> TitleAddTesting, description |-> DescAddTesting,
     tools |-> <<ToolJest, ToolCypress, ToolPlaywright>>,
     effort |-> TextMedium, impact |-> TextHigh]

\* 311-315
GitHubActions ==
    [tool |-> "GitHub Actions", description |-> "Implement CI/CD pipeline",
     benefit |-> "Automated testing and deployment"]

\* 318-321
NextSteps ==
    <<"Prioritize high-impact, low-effort improvements", "Set up monitoring and analytics">>

\* generate_recommendations 291-323; project_analysis, tech_stack and
\* enhancements are not read
generate_recommendations(cq) ==
    [EmptyRecommendations EXCEPT
        !.high_priority = IF cq.test_files = 0 THEN <<AddTestingFramework>> ELSE <<>>,
        !.tool_integrations = <<GitHubActions>>,
        !.next_steps = NextSteps]

\* bound: the test_files count of a code_quality argument
MaxTestFiles == 2

\* code_quality arguments of generate_recommendations called on its own
QualityValues ==
    { [EmptyQuality EXCEPT !.file_count = n + c, !.code_files = c, !.test_files = n,
                           !.potential_issues =
                               IF n = 0 THEN <<"No test files found">> ELSE <<>>] :
        n \in 0..MaxTestFiles, c \in 0..1 }

TitleAddCaching ==
    <<"A","d","d"," ","C","a","c","h","i","n","g">>
DescAddCaching ==
    <<"C","a","c","h","e"," ","A","P","I"," ","r","e","s","p","o","n","s","e","s",".">>
ToolRedis ==
    <<"R","e","d","i","s">>
TitleLikeHeading ==
    <<"I","m","p","l","e","m","e","n","t","a","t","i","o","n"," ","C","o","m","m","a","n","d",
      "s">>

\* recommendation entries a caller may pass: the one generate_recommendations
\* builds, another one, and one with empty fields whose title repeats the
\* words of a report heading
RecCatalogue ==
    { AddTestingFramework,
      [title |-> TitleAddCaching, description |-> DescAddCaching, tools |-> <<ToolRedis>>,
       effort |-> TextLow, impact |-> TextHigh],
      [title |-> TitleLikeHeading, description |-> <<>>, tools |-> <<>>,
       effort |-> <<>>, impact |-> <<>>] }

\* bound: entries of recommendations['high_priority']
MaxRecs == 2

\* recommendations arguments of create_review_report called on its own
RecommendationValues ==
    { [generate_recommendations(EmptyQuality) EXCEPT !.high_priority = hp] :
        hp \in SeqsUpTo(RecCatalogue, MaxRecs) }

FocusPerformance ==
    <<"p","e","r","f","o","r","m","a","n","c","e">>
FocusSecurity ==
    <<"s","e","c","u","r","i","t","y">>

\* focus_area: None (the default), '' or a word
FocusAreas ==
    {NoFocus} \cup [kind : {"str"}, text : {<<>>, FocusPerformance, FocusSecurity}]

ComprehensiveReview ==
    <<"C","o","m","p","r","e","h","e","n","s","i","v","e"," ","R","e","v","i","e","w">>

\* focus_area or 'Comprehensive Review' (334)
FocusOrDefault(focus) ==
    IF focus.kind = "None" \/ focus.text = <<>> THEN ComprehensiveReview ELSE focus.text

\* datetime.now().strftime('%Y-%m-%d %H:%M:%S') (332)
Date1 ==
    <<"2","0","2","6","-","1","1","-","0","3"," ","0","9",":","3","7",":","0","0">>
Date2 ==
    <<"2","0","2","6","-","1","1","-","0","3"," ","0","9",":","3","7",":","0","1">>

Dates == {Date1, Date2}

\* 329-338, the literal parts of the first f-string
HeadTitle ==
    <<"#"," ","B","u","i","l","d"," ","R","e","v","i","e","w"," ","R","e","p","o","r","t","\n",
      "\n","#","#"," ","R","e","v","i","e","w"," ","S","u","m","m","a","r","y","\n","*","*","D",
      "a","t","e","*","*",":"," ">>
HeadProject ==
    <<"\n","*","*","P","r","o","j","e","c","t","*","*",":"," ">>
HeadFocus ==
    <<"\n","*","*","F","o","c","u","s"," ","A","r","e","a","*","*",":"," ">>
HeadRecommendations ==
    <<"\n","\n","#","#"," ","H","i","g","h"," ","P","r","i","o","r","i","t","y"," ","R","e","c",
      "o","m","m","e","n","d","a","t","i","o","n","s","\n","\n">>

ReportHead(name, focus, date) ==
    HeadTitle \o date \o HeadProject \o name \o HeadFocus \o FocusOrDefault(focus)
        \o HeadRecommendations

\* 341-346, the literal parts of the f-string of one recommendation
RecTitle ==
    <<"#","#","#"," ">>
RecDescription ==
    <<"\n","*","*","D","e","s","c","r","i","p","t","i","o","n","*","*",":"," ">>
RecEffort ==
    <<"\n","*","*","E","f","f","o","r","t","*","*",":"," ">>
RecImpact ==
    <<" ","|"," ","*","*","I","m","p","a","c","t","*","*",":"," ">>
RecTools ==
    <<"\n","*","*","R","e","c","o","m","m","e","n","d","e","d"," ","T","o","o","l","s","*","*",
      ":"," ">>
RecEnd ==
    <<"\n","\n">>
CommaSpace ==
    <<","," ">>

RECURSIVE Join(_, _)
\* sep.join(parts)
Join(sep, parts) ==
    IF parts = <<>> THEN <<>>
    ELSE IF Len(parts) = 1 THEN parts[1]
    ELSE parts[1] \o sep \o Join(sep, Tail(parts))

RecBlock(rec) ==
    RecTitle \o rec.title \o RecDescription \o rec.description \o RecEffort \o rec.effort
        \o RecImpact \o rec.impact \o RecTools \o Join(CommaSpace, rec.tools) \o RecEnd

\* 348-361; the character U+0060 of the code fences is written "<backtick>"
ReportTail ==
    <<"#","#"," ","I","m","p","l","e","m","e","n","t","a","t","i","o","n"," ","C","o","m","m",
      "a","n","d","s","\n","\n","#","#","#"," ","Q","u","i","c","k"," ","S","t","a","r","t"," ",
      "E","n","h","a","n","c","e","m","e","n","t","s","\n","<backtick>","<backtick>",
      "<backtick>","b","a","s","h","\n","#"," ","S","e","t"," ","u","p"," ","t","e","s","t","i",
      "n","g"," ","f","r","a","m","e","w","o","r","k","\n","/","s","e","t","u","p","-","p","r",
      "p","-","s","y","s","t","e","m"," ","-","-","t","e","s","t","i","n","g","\n","\n","#"," ",
      "A","d","d"," ","a","u","t","h","e","n","t","i","c","a","t","i","o","n","\n","/","p","r",
      "p","-","b","a","s","e","-","c","r","e","a","t","e"," ","i","m","p","l","e","m","e","n",
      "t"," ","u","s","e","r"," ","a","u","t","h","e","n","t","i","c","a","t","i","o","n"," ",
      "w","i","t","h"," ","S","u","p","a","b","a","s","e","\n","<backtick>","<backtick>",
      "<backtick>","\n","\n","-","-","-","\n","*","G","e","n","e","r","a","t","e","d"," ","b",
      "y"," ","P","R","P"," ","S","y","s","t","e","m"," ","B","u","i","l","d"," ","R","e","v",
      "i","e","w","*","\n">>

\* report_content of create_review_report 329-361
report_content(p, recs, focus, date) ==
    ReportHead(p.name, focus, date)
        \o Concat([i \in 1..Len(recs.high_priority) |-> RecBlock(recs.high_priority[i])])
        \o ReportTail

\* bound: calls of create_review_report on one project directory
MaxReports == 2

InitReview ==
    /\ entry \in {"pipeline", "generate_recommendations", "create_review_report"}
    /\ report \in PreReports
    /\ focus_area = NoFocus
    /\ report_calls = 0
    /\ \/ /\ entry = "pipeline"
          /\ rpc = "analyze"
          /\ project \in ProjectDirs(MaxProjectFiles)
          /\ code_quality = EmptyQuality
          /\ recommendations = EmptyRecommendations
       \/ /\ entry = "generate_recommendations"
          /\ rpc = "recommend"
          /\ project = [name |-> NameMyApp, files |-> {}]
          /\ code_quality \in QualityValues
          /\ recommendations = EmptyRecommendations
       \/ /\ entry = "create_review_report"
          /\ rpc = "report"
          /\ project = [name |-> NameMyApp, files |-> {}]
          /\ code_quality = EmptyQuality
          /\ recommendations \in RecommendationValues
    /\ PrpIdle /\ DirIdle /\ ScanIdle /\ MainIdle /\ SugIdle

\* code_quality = analyze_code_quality(temp_path) (44)
AnalyzeCodeQuality ==
    /\ rpc = "analyze"
    /\ code_quality' = analyze_code_quality(project, report)
    /\ rpc' = "recommend"
    /\ UNCHANGED <<entry, project, report, recommendations, focus_area, report_calls>>
    /\ UNCHANGED <<prpVars, dirVars, scanLog, mainVars, sugVars>>

\* recommendations = generate_recommendations(..., code_quality, ...) (60)
GenerateRecommendations ==
    /\ rpc = "recommend"
    /\ recommendations' = generate_recommendations(code_quality)
    /\ rpc' = "report"
    /\ UNCHANGED <<entry, project, report, code_quality, focus_area, report_calls>>
    /\ UNCHANGED <<prpVars, dirVars, scanLog, mainVars, sugVars>>

\* faulty variant: the report is opened with mode 'a'
CreateReviewReport_Append ==
    /\ rpc = "report"
    /\ report_calls < MaxReports
    /\ \E focus \in FocusAreas, date \in Dates :
           /\ focus_area' = focus
           /\ report' = [exists |-> TRUE,
                         text |-> report.text
                                      \o report_content(project, recommendations, focus, date)]
    /\ report_calls' = report_calls + 1
    /\ UNCHANGED <<entry, rpc, project, code_quality, recommendations>>
    /\ UNCHANGED <<prpVars, dirVars, scanLog, mainVars, sugVars>>

\* create_review_report(project_dir, recommendations, focus_area) 325-365:
\* open(report_path, 'w') truncates what the file held
CreateReviewReport ==
    /\ rpc = "report"
    /\ report_calls < MaxReports
    /\ \E focus \in FocusAreas, date \in Dates :
           /\ focus_area' = focus
           /\ report' = [exists |-> TRUE,
                         text |-> report_content(project, recommendations, focus, date)]
    /\ report_calls' = report_calls + 1
    /\ UNCHANGED <<entry, rpc, project, code_quality, recommendations>>
    /\ UNCHANGED <<prpVars, dirVars, scanLog, mainVars, sugVars>>

NextReview ==
    \/ AnalyzeCodeQuality
    \/ GenerateRecommendations
    \/ CreateReviewReport

SpecReview == InitReview /\ [][NextReview]_vars

----------------------------------------------------------------------------
(* Properties of detect_tech_stack *)

PkgIsObject == Exists(dir, "package.json") /\ dir.pkg.kind = "object"

NoRepeats(seq) == \A i, j \in 1..Len(seq) : seq[i] = seq[j] => i = j

\* C1: whenever package.json exists and parses to a JSON object, the scan
\* returns a mapping whose frontend list contains "React" exactly when
\* "react" is a key of the object's dependencies or of its devDependencies.
C1_ReactIffReactDependency ==
    \A i \in 1..Len(scanLog) :
        PkgIsObject =>
            /\ scanLog[i].raised = ""
            /\ Contains(scanLog[i].stack.frontend, "React")
                   <=> "react" \in dir.pkg.deps.keys \cup dir.pkg.dev.keys

\* C2: no label appears more than once in any category list a scan returns.
C2_NoLabelTwice ==
    \A i \in 1..Len(scanLog) :
        /\ NoRepeats(scanLog[i].stack.frontend)
        /\ NoRepeats(scanLog[i].stack.backend)
        /\ NoRepeats(scanLog[i].stack.database)
        /\ NoRepeats(scanLog[i].stack.tools)

C10_MissingFieldIsEmpty ==
    \A i \in 1..Len(scanLog) :
        (PkgIsObject /\ (dir.pkg.deps.kind = "missing" \/ dir.pkg.dev.kind = "missing")) =>
            /\ scanLog[i].raised = ""
            /\ scanLog[i].stack =
                   detect_tech_stack(
                       [dir EXCEPT !.pkg.deps = GetOrEmpty(dir.pkg.deps),
                                   !.pkg.dev = GetOrEmpty(dir.pkg.dev)])
            /\ (dir.pkg.deps.kind = "missing" /\ dir.pkg.dev.kind = "missing") =>
                   /\ scanLog[i].stack.frontend = <<>>
                   /\ ~Contains(scanLog[i].stack.tools, "TypeScript")

\* C11: in every mapping a scan returns, each of Django, Flask, FastAPI and
\* Celery is in backend exactly when requirements.txt exists and its
\* lower-cased text contains django, flask, fastapi or celery respectively;
\* each of PostgreSQL, MySQL, MongoDB and Redis is in database exactly when
\* docker-compose.yml exists and its lower-cased text contains postgres,
\* mysql, mongodb or redis respectively; and the mapping has exactly the
\* keys frontend, backend, database and tools.
C11_MarkerFileLabels ==
    LET InReq(kw) == Exists(dir, "requirements.txt") /\ IsSubstr(kw, Lower(dir.req))
        InCompose(kw) == Exists(dir, "docker-compose.yml") /\ IsSubstr(kw, Lower(dir.compose))
    IN  \A i \in 1..Len(scanLog) :
            scanLog[i].raised = "" =>
                LET ts == scanLog[i].stack
                IN  /\ DOMAIN ts = {"frontend", "backend", "database", "tools"}
                    /\ Contains(ts.backend, "Django") <=> InReq(KwDjango)
                    /\ Contains(ts.backend, "Flask") <=> InReq(KwFlask)
                    /\ Contains(ts.backend, "FastAPI") <=> InReq(KwFastapi)
                    /\ Contains(ts.backend, "Celery") <=> InReq(KwCelery)
                    /\ Contains(ts.database, "PostgreSQL") <=> InCompose(KwPostgres)
                    /\ Contains(ts.database, "MySQL") <=> InCompose(KwMysql)
                    /\ Contains(ts.database, "MongoDB") <=> InCompose(KwMongodb)
                    /\ Contains(ts.database, "Redis") <=> InCompose(KwRedis)

\* a returned scan of a directory whose requirements.txt reads "Flask\ncelery\n"
C11_Witness ==
    /\ scanLog # <<>>
    /\ scanLog[1].raised = ""
    /\ dir.req = <<"F","l","a","s","k","\n","c","e","l","e","r","y","\n">>
    /\ scanLog[1].stack.backend = <<"Flask", "Celery">>
    /\ scanLog[1].stack.database = <<>>

----------------------------------------------------------------------------
(* Properties of suggest_ai_docs *)

\* labels that have no entry in suggest_ai_docs
UnmappedLabels ==
    {"Python", "Nuxt.js", "Chakra UI", "Fastify", "MySQL", "Webpack", "Playwright"}

\* C8: the names suggest_ai_docs returns are the union, over the labels
\* present in each category, of the label's fixed name list; labels without
\* an entry add nothing; no name is returned twice; and the set returned
\* depends only on which labels are present in each category.
C8_SuggestionsAreUnionOfMapping ==
    suggested.done =>
        /\ Range(suggested.names) =
               UNION { UNION {Range(DocsFor(c, l)) : l \in Range(stack_arg[c])} :
                       c \in Categories }
        /\ NoRepeats(suggested.names)
        /\ (\A c \in Categories : Range(stack_arg[c]) \subseteq UnmappedLabels)
               => suggested.names = <<>>

C8_Witness ==
    /\ suggested.done
    /\ stack_arg.backend = <<"Go", "Go">>
    /\ stack_arg.frontend = <<>> /\ stack_arg.database = <<>> /\ stack_arg.tools = <<>>
    /\ Range(suggested.names) = {"go-patterns.md", "go-http-patterns.md"}
    /\ Len(suggested.names) = 2

----------------------------------------------------------------------------
(* Properties of detect-tech-stack.py main *)

\* C4: every script swallows parse and IO errors and exits with status 0;
\* detect-tech-stack.py main exits 0, without raising, when package.json is
\* not valid JSON or when PRPs/ai_docs cannot be written to.
C4_AlwaysExitsZero ==
    (/\ dpc = "exited"
     /\ \/ Exists(dir, "package.json") /\ dir.pkg.kind = "invalid_json"
        \/ aiDocsDir # "writable")
        => (dExit = 0 /\ dRaised = "")

\* C9: create_ai_docs_files is invoked, and a file of PRPs/ai_docs created or
\* modified, only if the suggestion list is not empty and the user's answer,
\* lower-cased and stripped, is "y" or "yes".
C9_WritesOnlyOnConsent ==
    [][ (create_calls' # create_calls \/ aiDocs' # aiDocs) =>
            /\ suggestions # {}
            /\ Strip(Lower(answer)) \in {<<"y">>, <<"y","e","s">>} ]_vars

C9_Witness ==
    /\ dpc = "exited"
    /\ answer = <<" ","Y","e","s","\t">>
    /\ Len(create_calls) = 1
    /\ created_files = {"go-http-patterns.md"}
    /\ aiDocs["go-patterns.md"] = UserFile("go-patterns.md")
    /\ aiDocs["go-http-patterns.md"] = create_basic_template("go-http-patterns.md")

----------------------------------------------------------------------------
(* Properties of the review functions *)

HasTitle(recs, title) == \E i \in 1..Len(recs) : recs[i].title = title

\* C12: for every project directory, the recommendations that
\* generate_recommendations builds from the metrics of analyze_code_quality
\* have a non-empty high_priority list and a non-empty tool_integrations
\* list; generate_recommendations puts the 'Add Testing Framework' entry in
\* high_priority exactly when code_quality['test_files'] is 0, and always
\* puts the 'GitHub Actions' entry in tool_integrations.
C12_RecommendationsNonEmpty ==
    (entry \in {"pipeline", "generate_recommendations"} /\ rpc = "report") =>
        /\ entry = "pipeline" =>
               /\ recommendations.high_priority # <<>>
               /\ recommendations.tool_integrations # <<>>
        /\ HasTitle(recommendations.high_priority, TitleAddTesting)
               <=> code_quality.test_files = 0
        /\ \E i \in 1..Len(recommendations.tool_integrations) :
               recommendations.tool_integrations[i].tool = "GitHub Actions"

\* the pipeline has run on a project that holds a test file
C12_Witness ==
    /\ entry = "pipeline"
    /\ rpc = "report"
    /\ "tests/app.test.js" \in project.files
    /\ code_quality.file_count = 1
    /\ recommendations.high_priority = <<AddTestingFramework>>
    /\ recommendations.tool_integrations = <<GitHubActions>>

RECURSIVE SplitLines(_)
\* text.split('\n')
SplitLines(text) ==
    IF \A i \in 1..Len(text) : text[i] # "\n" THEN <<text>>
    ELSE LET k == CHOOSE i \in 1..Len(text) :
                      text[i] = "\n" /\ \A j \in 1..(i - 1) : text[j] # "\n"
         IN  <<SubSeq(text, 1, k - 1)>> \o SplitLines(SubSeq(text, k + 1, Len(text)))

StartsWith(text, prefix) ==
    Len(text) >= Len(prefix) /\ SubSeq(text, 1, Len(prefix)) = prefix

LinesEqual(lines, line) == {i \in 1..Len(lines) : lines[i] = line}

WordsBuildReviewReport == <<"B","u","i","l","d"," ","R","e","v","i","e","w"," ","R","e","p","o","r","t">>
WordsHighPriority == <<"H","i","g","h"," ","P","r","i","o","r","i","t","y"," ","R","e","c","o","m","m","e","n","d","a","t","i","o","n","s">>
WordsImplementation == <<"I","m","p","l","e","m","e","n","t","a","t","i","o","n"," ","C","o","m","m","a","n","d","s">>
Hash == <<"#">>

\* C13: after create_review_report has been called with any recommendations
\* (an empty high_priority list included) and any focus_area, the project
\* directory holds build-review-report.md; its text contains 'Build Review
\* Report', 'High Priority Recommendations' and 'Implementation Commands';
\* between the heading lines of the latter two there is one '### <title>'
\* line per high-priority recommendation, in list order; and the text is
\* that of the last call alone (one title line, as the first line), whatever
\* the file held before.
C13_ReportWritten ==
    report_calls > 0 =>
        LET lines == SplitLines(report.text)
            h1 == LinesEqual(lines, Hash \o <<" ">> \o WordsBuildReviewReport)
            h2 == LinesEqual(lines, Hash \o Hash \o <<" ">> \o WordsHighPriority)
            h3 == LinesEqual(lines, Hash \o Hash \o <<" ">> \o WordsImplementation)
            IsBlockTitle(line) == StartsWith(line, Hash \o Hash \o Hash \o <<" ">>)
            hp == recommendations.high_priority
        IN  /\ report.exists
            /\ IsSubstr(WordsBuildReviewReport, report.text)
            /\ IsSubstr(WordsHighPriority, report.text)
            /\ IsSubstr(WordsImplementation, report.text)
            /\ h1 = {1}
            /\ Cardinality(h2) = 1
            /\ Cardinality(h3) = 1
            /\ \A i \in h2, j \in h3 :
                   /\ i < j
                   /\ SelectSeq(SubSeq(lines, i + 1, j - 1), IsBlockTitle)
                          = [k \in 1..Len(hp) |-> Hash \o Hash \o Hash \o <<" ">> \o hp[k].title]
            /\ ~IsSubstr(StaleText, report.text)

\* a second report, with two recommendations and the default focus, has
\* replaced the first one
C13_Witness ==
    /\ report_calls = 2
    /\ entry = "create_review_report"
    /\ Len(recommendations.high_priority) = 2
    /\ recommendations.high_priority[2] = AddTestingFramework
    /\ focus_area = NoFocus
    /\ report.exists

====
